---- MODULE Spec2Model ----
(***************************************************************************)
(* Model of solana_logger (src/lib.rs): the Level enum, level(), the log!  *)
(* macro and the four feature-gated macros debug!, info!, warn!, error!.   *)
(*                                                                         *)
(* One feature set stands for the build: the macros are expanded in a      *)
(* crate built with the same features as level(), as in the crate's own    *)
(* tests.  Every subset of the four features is a possible build.          *)
(*                                                                         *)
(* Strings are sequences of one-character strings, so that concat! and the *)
(* `{}` substitution of the emission primitive are computed, not assumed.  *)
(***************************************************************************)
EXTENDS Integers, Sequences, FiniteSets, TLC

VARIABLES
    features,   \* the cargo features the crate was built with (fixed per build)
    msgs,       \* the invocations of solana_program::msg!: [fmt, args]
    sink,       \* the lines the emission primitive wrote, in order
    evaluated,  \* number of argument expressions evaluated at run time
    calls       \* the macro invocations made so far, with what each one did

vars == <<features, msgs, sink, evaluated, calls>>

-----------------------------------------------------------------------------
(* Bounds and input sets *)

MaxCalls == 2

Features == {"loglevel_debug", "loglevel_info", "loglevel_warn", "loglevel_error"}

\* file!() and line!() of the call site.
File == <<"l", "i", "b", ".", "r", "s">>
Lines == {110}

\* Argument lists handed to a logging macro.
ArgLists ==
    { << <<"y">> >>,
      << <<"{", "}">> >>,
      << <<"z", " ", "{", "}">>, <<"w">> >>,
      << <<"{", "}", "{", "}">>, <<"a">>, <<"b">> >> }

CUSTOM == <<"C", "U", "S", "T", "O", "M">>

-----------------------------------------------------------------------------
(* enum Level, #[derive(Ord, Eq, PartialOrd, PartialEq)] *)

Level == {"Debug", "Info", "Warn", "Error", "Disabled"}

MessageLevel == Level \ {"Disabled"}

\* A mutant: Disabled declared first instead of last.
Discriminant_first(l) ==
    CASE l = "Disabled" -> 0
      [] l = "Debug"    -> 1
      [] l = "Info"     -> 2
      [] l = "Warn"     -> 3
      [] l = "Error"    -> 4

\* The derived order compares variants by their position in the declaration.
Discriminant(l) ==
    CASE l = "Debug"    -> 0
      [] l = "Info"     -> 1
      [] l = "Warn"     -> 2
      [] l = "Error"    -> 3
      [] l = "Disabled" -> 4

Lt(a, b) == Discriminant(a) < Discriminant(b)
Le(a, b) == Discriminant(a) <= Discriminant(b)

-----------------------------------------------------------------------------
(* cfg!(feature = f) and level() *)

\* A mutant: the feature test depends on what was logged before.
cfg_drift(f) == f \in features /\ Len(sink) = 0

cfg(f) == f \in features

\* A mutant: the features are tested from most to least severe.
level_reversed ==
    IF cfg("loglevel_error") THEN "Error"
    ELSE IF cfg("loglevel_warn") THEN "Warn"
    ELSE IF cfg("loglevel_info") THEN "Info"
    ELSE IF cfg("loglevel_debug") THEN "Debug"
    ELSE "Disabled"

\* A mutant: the default is Error instead of Disabled.
level_default_error ==
    IF cfg("loglevel_debug") THEN "Debug"
    ELSE IF cfg("loglevel_info") THEN "Info"
    ELSE IF cfg("loglevel_warn") THEN "Warn"
    ELSE "Error"

level ==
    IF cfg("loglevel_debug") THEN "Debug"
    ELSE IF cfg("loglevel_info") THEN "Info"
    ELSE IF cfg("loglevel_warn") THEN "Warn"
    ELSE IF cfg("loglevel_error") THEN "Error"
    ELSE "Disabled"

-----------------------------------------------------------------------------
(* Strings: line!() in concat!, and the `{}` formatting of msg! *)

Digit == <<"0", "1", "2", "3", "4", "5", "6", "7", "8", "9">>

RECURSIVE ToDecimal(_)
ToDecimal(n) ==
    IF n < 10 THEN <<Digit[n + 1]>>
    ELSE ToDecimal(n \div 10) \o <<Digit[(n % 10) + 1]>>

\* format!: `{}` takes the next argument, `{{` and `}}` are escaped braces.
RECURSIVE Format(_, _)
Format(f, a) ==
    IF f = <<>> THEN <<>>
    ELSE IF Len(f) >= 2 /\ f[1] = "{" /\ f[2] = "}"
         THEN Head(a) \o Format(SubSeq(f, 3, Len(f)), Tail(a))
    ELSE IF Len(f) >= 2 /\ f[1] = f[2] /\ f[1] \in {"{", "}"}
         THEN <<f[1]>> \o Format(SubSeq(f, 3, Len(f)), a)
    ELSE <<f[1]>> \o Format(Tail(f), a)

\* A mutant: the line number is left out of the prefix.
prefix_noline(label, line, fmt) ==
    <<"[">> \o File \o <<":">> \o <<" ">> \o label \o <<"]", " ">> \o fmt

\* log!(prefix $label, $fmt)
prefix(label, line, fmt) ==
    <<"[">> \o File \o <<":">> \o ToDecimal(line) \o <<" ">> \o label
            \o <<"]", " ">> \o fmt

\* solana_program::msg!(fmt, args...): formats and writes one line.
msg(fmt, fargs) ==
    /\ msgs' = Append(msgs, [fmt |-> fmt, args |-> fargs])
    /\ sink' = Append(sink, Format(fmt, fargs))
    /\ evaluated' = evaluated + Len(fargs)

\* A mutant: a single argument is used as the format string itself.
log_single_as_format(lvl, label, args, line) ==
    IF Len(args) = 1
    THEN msg(prefix(label, line, args[1]), <<>>)
    ELSE msg(prefix(label, line, Head(args)), Tail(args))

\* log!(level, label, args...): the level is not used by either arm.
log(lvl, label, args, line) ==
    IF Len(args) = 1
    THEN msg(prefix(label, line, <<"{", "}">>), args)
    ELSE msg(prefix(label, line, Head(args)), Tail(args))

skip == UNCHANGED <<msgs, sink, evaluated>>

-----------------------------------------------------------------------------
(* The four macros: each statement is kept only under its own feature *)

DEBUG == <<"D", "E", "B", "U", "G">>
INFO  == <<"I", "N", "F", "O">>
WARN  == <<"W", "A", "R", "N">>
ERROR == <<"E", "R", "R", "O", "R">>

\* A mutant: debug! without its cfg attribute.
debug_ungated(args, line) == log("Debug", DEBUG, args, line)

debug(args, line) ==
    IF cfg("loglevel_debug") THEN log("Debug", DEBUG, args, line) ELSE skip

\* A mutant: info! evaluates its arguments before the feature test.
info_eager(args, line) ==
    IF cfg("loglevel_info") THEN log("Info", INFO, args, line)
    ELSE /\ evaluated' = evaluated + Len(args)
         /\ UNCHANGED <<msgs, sink>>

info(args, line) ==
    IF cfg("loglevel_info") THEN log("Info", INFO, args, line) ELSE skip

warn(args, line) ==
    IF cfg("loglevel_warn") THEN log("Warn", WARN, args, line) ELSE skip

error(args, line) ==
    IF cfg("loglevel_error") THEN log("Error", ERROR, args, line) ELSE skip

-----------------------------------------------------------------------------
(* Invocations *)

\* What an invocation did: the sink and the evaluation count before and after.
Record(macro, lvl, label, args, line) ==
    calls' = Append(calls,
        [macro |-> macro, level |-> lvl, label |-> label, args |-> args,
         line |-> line,
         n0 |-> Len(sink), n1 |-> Len(sink'),
         m0 |-> Len(msgs), m1 |-> Len(msgs'),
         e0 |-> evaluated, e1 |-> evaluated',
         threshold |-> level])

CallDebug ==
    \E args \in ArgLists, line \in Lines :
        /\ Len(calls) < MaxCalls
        /\ debug(args, line)
        /\ Record("debug", "Debug", DEBUG, args, line)
        /\ UNCHANGED features

CallInfo ==
    \E args \in ArgLists, line \in Lines :
        /\ Len(calls) < MaxCalls
        /\ info(args, line)
        /\ Record("info", "Info", INFO, args, line)
        /\ UNCHANGED features

CallWarn ==
    \E args \in ArgLists, line \in Lines :
        /\ Len(calls) < MaxCalls
        /\ warn(args, line)
        /\ Record("warn", "Warn", WARN, args, line)
        /\ UNCHANGED features

CallError ==
    \E args \in ArgLists, line \in Lines :
        /\ Len(calls) < MaxCalls
        /\ error(args, line)
        /\ Record("error", "Error", ERROR, args, line)
        /\ UNCHANGED features

\* A direct use of the exported log! macro.
CallLog ==
    \E lvl \in Level, args \in ArgLists, line \in Lines :
        /\ Len(calls) < MaxCalls
        /\ log(lvl, CUSTOM, args, line)
        /\ Record("log", lvl, CUSTOM, args, line)
        /\ UNCHANGED features

Init ==
    /\ features \in SUBSET Features
    /\ msgs = <<>>
    /\ sink = <<>>
    /\ evaluated = 0
    /\ calls = <<>>

Next == CallDebug \/ CallInfo \/ CallWarn \/ CallError \/ CallLog

Spec == Init /\ [][Next]_vars

-----------------------------------------------------------------------------
(* Vocabulary of the properties *)

Macros == {"debug", "info", "warn", "error"}

FeatureOf(l) ==
    CASE l = "Debug" -> "loglevel_debug"
      [] l = "Info"  -> "loglevel_info"
      [] l = "Warn"  -> "loglevel_warn"
      [] l = "Error" -> "loglevel_error"

LabelOf(macro) ==
    CASE macro = "debug" -> <<"D", "E", "B", "U", "G">>
      [] macro = "info"  -> <<"I", "N", "F", "O">>
      [] macro = "warn"  -> <<"W", "A", "R", "N">>
      [] macro = "error" -> <<"E", "R", "R", "O", "R">>

Emitted(c) == c.n1 = c.n0 + 1
Silent(c) == c.n1 = c.n0 /\ c.m1 = c.m0

\* The tag `[<file>:<line> <LABEL>] ` a call site is expected to produce.
Tag(line, label) ==
    <<"[">> \o File \o <<":">> \o ToDecimal(line) \o <<" ">> \o label \o <<"]", " ">>

\* The caller's formatted content.
Content(args) ==
    IF Len(args) = 1 THEN args[1] ELSE Format(Head(args), Tail(args))

-----------------------------------------------------------------------------
(* C1: whenever the feature of a level L is enabled, a call through the     *)
(* macro of L and through the macro of every more severe level emits a     *)
(* message.  Stated as written; the code gates each macro on its own       *)
(* feature only.                                                           *)
C1_EnabledLevelAndAboveEmit ==
    \A i \in DOMAIN calls :
        LET c == calls[i] IN
        (/\ c.macro \in Macros
         /\ \E L \in MessageLevel : FeatureOf(L) \in features /\ Le(L, c.level))
        => Emitted(c)

(* C2: a call through debug!, info!, warn! or error! whose level is        *)
(* strictly below the threshold level() emits nothing.                     *)
C2_BelowThresholdSilent ==
    \A i \in DOMAIN calls :
        LET c == calls[i] IN
        (c.macro \in Macros /\ Lt(c.level, c.threshold)) => Silent(c)

C2_Witness ==
    /\ level = "Warn"
    /\ Len(calls) = 2
    /\ calls[1].macro = "warn" /\ Emitted(calls[1])
    /\ calls[2].macro = "info" /\ calls[2].threshold = "Warn" /\ Silent(calls[2])

(* C3: with no feature enabled level() is Disabled and no call through the *)
(* four macros emits anything; whenever level() is Disabled every such     *)
(* call is suppressed, whatever its level.                                 *)
C3_DisabledSilencesAll ==
    /\ features = {} => level = "Disabled"
    /\ \A i \in DOMAIN calls :
           LET c == calls[i] IN
           (c.macro \in Macros /\ (features = {} \/ c.threshold = "Disabled"))
           => Silent(c)

C3_Witness ==
    /\ features = {}
    /\ level = "Disabled"
    /\ Len(calls) = 2
    /\ calls[1].macro = "debug" /\ Silent(calls[1])
    /\ calls[2].macro = "error" /\ Silent(calls[2])
    /\ sink = <<>>

(* C4: every message emitted through debug!, info!, warn! or error! is     *)
(* `[<file>:<line> <LABEL>] <content>`: one source location tag, the label *)
(* of the macro called, then the caller's formatted content unmodified.    *)
C4_MessageForm ==
    \A i \in DOMAIN calls :
        LET c == calls[i] IN
        (c.macro \in Macros /\ Emitted(c)) =>
            /\ sink[c.n1] = Tag(c.line, LabelOf(c.macro)) \o Content(c.args)
            /\ (c.macro = "warn" /\ c.line = 110 /\ c.args = << <<"y">> >>) =>
                   sink[c.n1] = <<"[", "l", "i", "b", ".", "r", "s", ":",
                                  "1", "1", "0", " ", "W", "A", "R", "N",
                                  "]", " ", "y">>

C4_Witness ==
    \E i \in DOMAIN calls :
        /\ calls[i].macro = "error"
        /\ calls[i].args = << <<"z", " ", "{", "}">>, <<"w">> >>
        /\ Emitted(calls[i])
        /\ sink[calls[i].n1] = <<"[", "l", "i", "b", ".", "r", "s", ":",
                                 "1", "1", "0", " ", "E", "R", "R", "O", "R",
                                 "]", " ", "z", " ", "w">>

(* C5: a direct call log!(level, label, ...) emits only when the threshold *)
(* passes the call's level (level() <= level) and emits nothing otherwise. *)
(* Stated as written; neither arm of log! reads its level.                 *)
C5_LogIsConditional ==
    \A i \in DOMAIN calls :
        LET c == calls[i] IN
        c.macro = "log" => (Emitted(c) <=> Le(c.threshold, c.level))

(* C6: the gate is deterministic and stateless: two calls through the same *)
(* macro take the same decision, and level() is the same at every call and *)
(* after it.                                                               *)
C6_Stateless ==
    /\ \A i, j \in DOMAIN calls :
           calls[i].macro = calls[j].macro
           => (Emitted(calls[i]) <=> Emitted(calls[j]))
    /\ \A i \in DOMAIN calls : calls[i].threshold = level

C6_Witness ==
    /\ Len(calls) = 2
    /\ calls[1].macro = "warn" /\ calls[2].macro = "warn"
    /\ Emitted(calls[1]) /\ Emitted(calls[2])
    /\ calls[1].threshold = "Info" /\ level = "Info"

(* C7: level() is the least severe level whose feature is enabled, and is  *)
(* Disabled exactly when no feature is enabled.                            *)
C7_LevelIsLeastEnabled ==
    /\ level = "Disabled" <=> features = {}
    /\ features # {} =>
           /\ level \in MessageLevel
           /\ FeatureOf(level) \in features
           /\ \A L \in MessageLevel : FeatureOf(L) \in features => Le(level, L)
    /\ \A i \in DOMAIN calls :
           calls[i].threshold = "Disabled" <=> features = {}

C7_Witness ==
    /\ features = {"loglevel_info", "loglevel_error"}
    /\ level = "Info"
    /\ calls # <<>>
    /\ calls[1].threshold = "Info"

(* C8: the comparison on Level is a strict total order with                *)
(* Debug < Info < Warn < Error < Disabled, and Disabled is strictly above  *)
(* every message level.                                                    *)
C8_StrictTotalOrder ==
    /\ \A a \in Level : ~Lt(a, a)
    /\ \A a, b \in Level : a # b => (Lt(a, b) \/ Lt(b, a))
    /\ \A a, b \in Level : ~(Lt(a, b) /\ Lt(b, a))
    /\ \A a, b, c \in Level : (Lt(a, b) /\ Lt(b, c)) => Lt(a, c)
    /\ Lt("Debug", "Info") /\ Lt("Info", "Warn")
    /\ Lt("Warn", "Error") /\ Lt("Error", "Disabled")
    /\ \A a \in MessageLevel : Lt(a, "Disabled")
    /\ \A i \in DOMAIN calls :
           calls[i].macro \in Macros => Lt(calls[i].level, "Disabled")

C8_Witness ==
    /\ level = "Warn"
    /\ Lt("Info", level) /\ Lt(level, "Error") /\ Lt(level, "Disabled")
    /\ \E i \in DOMAIN calls : calls[i].level = "Error"

(* C9: an admitted call makes exactly one call to the emission primitive.  *)
(* With one argument the format is the tag joined to `{}` and the argument *)
(* is the only substitution value, so its text is emitted verbatim; with   *)
(* more the first argument is the format appended to the tag and the rest  *)
(* are the substitution values in their order.                             *)
C9_OneEmissionByArity ==
    \A i \in DOMAIN calls :
        LET c == calls[i] IN
        /\ c.m1 - c.m0 = c.n1 - c.n0
        /\ c.m1 - c.m0 \in {0, 1}
        /\ Emitted(c) =>
            LET m == msgs[c.m1] IN
            IF Len(c.args) = 1
            THEN /\ m.fmt = Tag(c.line, c.label) \o <<"{", "}">>
                 /\ m.args = <<c.args[1]>>
                 /\ sink[c.n1] = Tag(c.line, c.label) \o c.args[1]
            ELSE /\ m.fmt = Tag(c.line, c.label) \o c.args[1]
                 /\ m.args = SubSeq(c.args, 2, Len(c.args))

C9_Witness ==
    /\ Len(calls) = 2
    /\ calls[1].macro = "info" /\ calls[1].args = << <<"{", "}">> >>
    /\ Emitted(calls[1])
    /\ sink[1] = <<"[", "l", "i", "b", ".", "r", "s", ":", "1", "1", "0", " ",
                   "I", "N", "F", "O", "]", " ", "{", "}">>
    /\ calls[2].args = << <<"{", "}", "{", "}">>, <<"a">>, <<"b">> >>
    /\ Emitted(calls[2])
    /\ msgs[2].args = << <<"a">>, <<"b">> >>

(* C10: a suppressed call has no side effect: the emission primitive is    *)
(* not called, the emitted messages are unchanged and no argument          *)
(* expression is evaluated.                                                *)
NotAdmitted(c) ==
    /\ c.macro \in Macros
    /\ (FeatureOf(c.level) \notin features \/ ~Le(c.threshold, c.level))

C10_SuppressedNoEffect ==
    [][(/\ Len(calls') = Len(calls) + 1
        /\ NotAdmitted(calls'[Len(calls')]))
       => (msgs' = msgs /\ sink' = sink /\ evaluated' = evaluated)]_vars

C10_Witness ==
    /\ Len(calls) = 2
    /\ calls[1].macro = "error" /\ Emitted(calls[1])
    /\ calls[2].macro = "info" /\ Len(calls[2].args) = 3
    /\ NotAdmitted(calls[2])
    /\ Len(sink) = 1 /\ Len(msgs) = 1 /\ evaluated = calls[1].e1

====
